---- MODULE Spec2Model ----
(***************************************************************************)
(* Model of the MP4 reader of Broadway: the box parser (MP4Reader.readBox) *)
(* and the per-track sample index (Track) of src/unnamed/part_001.         *)
(*                                                                         *)
(* JavaScript numbers are modelled as records [k, n, d]: a rational n/d in *)
(* lowest terms (k = "num"), or the values NaN and undefined, so that an   *)
(* unfloored division, an out-of-range table read and arithmetic on        *)
(* undefined behave as they do in the source.                              *)
(***************************************************************************)
EXTENDS Integers, Sequences, FiniteSets, TLC

VARIABLES
    stsc,          \* trak.mdia.minf.stbl.stsc.table: rows [firstChunk, samplesPerChunk]
    stco,          \* trak.mdia.minf.stbl.stco.table: chunk byte offsets
    stsz,          \* trak.mdia.minf.stbl.stsz: [sampleSize, hasTable, table]
    declCount,     \* the sample count field of the stsz box in the stream
    stts,          \* trak.mdia.minf.stbl.stts.table: rows [count, delta]
    mdhdDuration,  \* trak.mdia.mdhd.duration
    bytes,         \* file.stream.bytes, the whole buffer
    boxIn,         \* the box at the stream's cursor, as readBox will meet it
    call,          \* the last operation called and its arguments
    ret,           \* what that operation returned (or the exception it raised)
    console,       \* number of console.error messages logged by assert
    player         \* the MP4Player: its reader, pending loads and timers, the decoder's input

vars == <<stsc, stco, stsz, declCount, stts, mdhdDuration, bytes, boxIn, call, ret, console,
          player>>

----------------------------------------------------------------------------
(* Bounds of the model *)

MaxRows == 3              \* rows of an stsc / stts table
MaxFirstChunk == 5        \* largest firstChunk of an stsc row
MaxSamplesPerChunk == 3   \* largest samplesPerChunk of an stsc row
MaxSample == 13           \* largest sample index queried of sampleToChunk
MaxSttsRows == 2          \* rows of an stts table (besides the documented table)
MaxCount == 3             \* largest count of an stts row
MaxDelta == 2             \* largest delta of an stts row
MaxTrackRows == 2         \* rows of the stsc table of a track with media data
MaxTrackFirstChunk == 3   \* largest firstChunk of such a table
MaxTrackSamplesPerChunk == 2  \* largest samplesPerChunk of such a table
MaxSamples == 3           \* samples of a track with media data
MaxGap == 1               \* unused bytes between two chunks
MaxChunkArg == 4          \* largest chunk index queried of chunkToOffset
TailPad == 4              \* bytes of the buffer after the last sample
MaxVersion == 1           \* largest version field of a box in the stream
MaxFlags == 1             \* largest flags field of a full box in the stream
MaxId == 2                \* largest trackId / timeScale / channelCount in the stream
MaxBoxOffset == 1         \* a box starts at 8 * (0 .. MaxBoxOffset)

BOX_HEADER_SIZE == 8
FULL_BOX_HEADER_SIZE == BOX_HEADER_SIZE + 4

----------------------------------------------------------------------------
(* JavaScript values *)

RECURSIVE GCD(_, _)
GCD(a, b) == IF b = 0 THEN a ELSE GCD(b, a % b)

Num(i) == [k |-> "num", n |-> i, d |-> 1]
NaN == [k |-> "NaN", n |-> 0, d |-> 1]
Undefined == [k |-> "undefined", n |-> 0, d |-> 1]

IsNum(x) == x.k = "num"
IsInt(x) == x.k = "num" /\ x.d = 1

\* a / b for integers a >= 0, b > 0: the exact quotient, not floored
JsDiv(a, b) == LET g == GCD(a, b) IN [k |-> "num", n |-> a \div g, d |-> b \div g]

\* x + y: NaN as soon as one operand is undefined or NaN
JsAdd(x, y) ==
    IF IsNum(x) /\ IsNum(y)
    THEN LET nn == x.n * y.d + y.n * x.d
             dd == x.d * y.d
             g == GCD(IF nn < 0 THEN -nn ELSE nn, dd)
         IN [k |-> "num", n |-> nn \div g, d |-> dd \div g]
    ELSE NaN

\* x <= y: false when an operand is NaN
JsLeq(x, y) == IsNum(x) /\ IsNum(y) /\ x.n * y.d <= y.n * x.d

\* x > y: false when an operand is NaN
JsGt(x, y) == IsNum(x) /\ IsNum(y) /\ x.n * y.d > y.n * x.d

\* table[x] of a 0-based array: undefined unless x is an index of the array
JsIndex(table, x) ==
    IF IsInt(x) /\ x.n >= 0 /\ x.n < Len(table) THEN Num(table[x.n + 1]) ELSE Undefined

----------------------------------------------------------------------------
(* function assert(condition, message): logs, never throws *)

assert(condition) == IF condition THEN 0 ELSE 1

----------------------------------------------------------------------------
(* Track.sampleToChunk *)

\* sampleToChunkLoop with a fault: the open-ended last row is divided by the
\* previous row's samplesPerChunk instead of its own
RECURSIVE sampleToChunkLoopDropLastRow(_, _, _, _)
sampleToChunkLoopDropLastRow(table, i, sample, totalChunkCount) ==
    IF i > Len(table) THEN [defined |-> FALSE, index |-> Undefined, offset |-> 0]
    ELSE IF i = 1 THEN sampleToChunkLoopDropLastRow(table, 2, sample, totalChunkCount)
    ELSE LET row == table[i]
             previousRow == table[i - 1]
             previousChunkCount == row.firstChunk - previousRow.firstChunk
             previousSampleCount == previousRow.samplesPerChunk * previousChunkCount
         IN IF sample >= previousSampleCount
            THEN IF i = Len(table)
                 THEN [defined |-> TRUE,
                       index |-> Num(totalChunkCount + previousChunkCount
                                     + ((sample - previousSampleCount) \div previousRow.samplesPerChunk)),
                       offset |-> (sample - previousSampleCount) % previousRow.samplesPerChunk]
                 ELSE sampleToChunkLoopDropLastRow(table, i + 1, sample - previousSampleCount,
                                                   totalChunkCount + previousChunkCount)
            ELSE [defined |-> TRUE,
                  index |-> Num(totalChunkCount + (sample \div previousRow.samplesPerChunk)),
                  offset |-> sample % previousRow.samplesPerChunk]

\* the loop of the multi-row case, from row i (1-based) on
RECURSIVE sampleToChunkLoop(_, _, _, _)
sampleToChunkLoop(table, i, sample, totalChunkCount) ==
    IF i > Len(table) THEN [defined |-> FALSE, index |-> Undefined, offset |-> 0]
    ELSE IF i = 1 THEN sampleToChunkLoop(table, 2, sample, totalChunkCount)
    ELSE LET row == table[i]
             previousRow == table[i - 1]
             previousChunkCount == row.firstChunk - previousRow.firstChunk
             previousSampleCount == previousRow.samplesPerChunk * previousChunkCount
         IN IF sample >= previousSampleCount
            THEN IF i = Len(table)
                 THEN [defined |-> TRUE,
                       index |-> Num(totalChunkCount + previousChunkCount
                                     + ((sample - previousSampleCount) \div row.samplesPerChunk)),
                       offset |-> (sample - previousSampleCount) % row.samplesPerChunk]
                 ELSE sampleToChunkLoop(table, i + 1, sample - previousSampleCount,
                                        totalChunkCount + previousChunkCount)
            ELSE [defined |-> TRUE,
                  index |-> Num(totalChunkCount + (sample \div previousRow.samplesPerChunk)),
                  offset |-> sample % previousRow.samplesPerChunk]

\* the single-row fast path: index is sample / samplesPerChunk, not floored
sampleToChunkSingle(row, sample) ==
    [defined |-> TRUE,
     index |-> JsDiv(sample, row.samplesPerChunk),
     offset |-> sample % row.samplesPerChunk]

sampleToChunk(table, sample) ==
    IF Len(table) = 1
    THEN sampleToChunkSingle(table[1], sample)
    ELSE sampleToChunkLoop(table, 1, sample, 0)

\* console.error messages of one sampleToChunk call
sampleToChunkErrors(table, sample) ==
    IF Len(table) = 1
    THEN assert(table[1].firstChunk = 1)
    ELSE IF sampleToChunkLoop(table, 1, sample, 0).defined THEN 0 ELSE assert(FALSE)

----------------------------------------------------------------------------
(* MP4Reader.readBox, case 'stsz': the box built from the stream's fields.  *)
(* count is read into a local and not kept; the table is read only when    *)
(* sampleSize is 0.                                                        *)

readStsz(sampleSize, count, entries) ==
    [sampleSize |-> sampleSize,
     hasTable |-> (sampleSize = 0),
     table |-> IF sampleSize = 0 THEN SubSeq(entries, 1, count) ELSE <<>>]

----------------------------------------------------------------------------
(* MP4Reader.readBox, the cases that assert a structural assumption.        *)
(* `in` holds the fields of the box as they lie in the stream; the result   *)
(* is the box returned, the cursor after it and the messages logged.        *)

BoxResult(box, position, errors) ==
    [k |-> "box", box |-> box, position |-> position, errors |-> errors]

\* case 'mvhd'
readMvhd(in) ==
    BoxResult([offset |-> in.offset, size |-> in.size, type |-> in.type,
               name |-> "Movie Header Box", version |-> in.version, flags |-> in.flags,
               creationTime |-> in.creationTime, modificationTime |-> in.modificationTime,
               timeScale |-> in.timeScale, duration |-> in.duration,
               rate |-> in.rate, volume |-> in.volume, matrix |-> in.matrix,
               nextTrackId |-> in.nextTrackId],
              in.offset + FULL_BOX_HEADER_SIZE + 4 + 4 + 4 + 4 + 4 + 2 + 10 + 9 * 4 + 6 * 4 + 4,
              assert(in.version = 0))

\* case 'tkhd'
readTkhd(in) ==
    BoxResult([offset |-> in.offset, size |-> in.size, type |-> in.type,
               name |-> "Track Header Box", version |-> in.version, flags |-> in.flags,
               creationTime |-> in.creationTime, modificationTime |-> in.modificationTime,
               trackId |-> in.trackId, duration |-> in.duration, layer |-> in.layer,
               alternateGroup |-> in.alternateGroup, volume |-> in.volume,
               matrix |-> in.matrix, width |-> in.width, height |-> in.height],
              in.offset + FULL_BOX_HEADER_SIZE + 4 + 4 + 4 + 4 + 4 + 8 + 2 + 2 + 2 + 2
                        + 9 * 4 + 4 + 4,
              assert(in.version = 0))

\* case 'mdhd'
readMdhd(in) ==
    BoxResult([offset |-> in.offset, size |-> in.size, type |-> in.type,
               name |-> "Media Header Box", version |-> in.version, flags |-> in.flags,
               creationTime |-> in.creationTime, modificationTime |-> in.modificationTime,
               timeScale |-> in.timeScale, duration |-> in.duration,
               language |-> in.language],
              in.offset + FULL_BOX_HEADER_SIZE + 4 + 4 + 4 + 4 + 2 + 2,
              assert(in.version = 0))

\* case 'avc1', without child boxes: readRemainingBoxes reads none
readAvc1(in) ==
    BoxResult([offset |-> in.offset, size |-> in.size, type |-> in.type,
               dataReferenceIndex |-> in.dataReferenceIndex,
               width |-> in.width, height |-> in.height,
               horizontalResolution |-> in.horizontalResolution,
               verticalResolution |-> in.verticalResolution,
               frameCount |-> in.frameCount, compressorName |-> in.compressorName,
               depth |-> in.depth],
              in.offset + BOX_HEADER_SIZE + 6 + 2 + 2 + 2 + 4 + 4 + 4 + 2 + 2 + 4 + 4 + 4
                        + 2 + 32 + 2 + 2 + (in.size - 86),
              assert(in.version = 0) + assert(in.revision = 0) + assert(in.reserved = 0)
                  + assert(in.colorTableId = 65535))

\* case 'mp4a', without child boxes
readMp4a(in) ==
    BoxResult([offset |-> in.offset, size |-> in.size, type |-> in.type,
               dataReferenceIndex |-> in.dataReferenceIndex, version |-> in.version,
               channelCount |-> in.channelCount, sampleSize |-> in.sampleSize,
               compressionId |-> in.compressionId, packetSize |-> in.packetSize,
               sampleRate |-> in.sampleRate \div 65536],
              in.offset + BOX_HEADER_SIZE + 6 + 2 + 2 + 2 + 4 + 2 + 2 + 2 + 2 + 4
                        + (in.size - 36),
              assert(in.version = 0))

\* case 'avcC': lengthSizeMinusOne is the byte & 3, the counts are bytes & 31;
\* the box ends with skipRemainingBytes
readAvcC(in) ==
    BoxResult([offset |-> in.offset, size |-> in.size, type |-> in.type,
               name |-> "AVC Configuration Box",
               configurationVersion |-> in.configurationVersion,
               avcProfileIndicaation |-> in.profileIndication,
               profileCompatibility |-> in.profileCompatibility,
               avcLevelIndication |-> in.levelIndication,
               lengthSizeMinusOne |-> in.lengthSizeByte % 4,
               sps |-> SubSeq(in.sps, 1, in.spsCountByte % 32),
               pps |-> SubSeq(in.pps, 1, in.ppsCountByte % 32)],
              in.offset + in.size,
              assert(in.lengthSizeByte % 4 = 3))

readBox(in) ==
    CASE in.type = "mvhd" -> readMvhd(in)
      [] in.type = "tkhd" -> readTkhd(in)
      [] in.type = "mdhd" -> readMdhd(in)
      [] in.type = "avc1" -> readAvc1(in)
      [] in.type = "mp4a" -> readMp4a(in)
      [] in.type = "avcC" -> readAvcC(in)

----------------------------------------------------------------------------
(* Track.getSampleCount, sampleToSize, chunkToOffset, sampleToOffset *)

TypeError == [k |-> "TypeError", n |-> 0, d |-> 1]
Raised(x) == x.k = "TypeError"

\* getSampleSizeTable().length: reading length of undefined throws
getSampleCount(box) == IF box.hasTable THEN Num(Len(box.table)) ELSE TypeError

\* size += table[i] for i = start .. start + length - 1
RECURSIVE sampleToSizeLoop(_, _, _, _)
sampleToSizeLoop(table, i, stop, size) ==
    IF i < stop
    THEN sampleToSizeLoop(table, i + 1, stop, JsAdd(size, JsIndex(table, Num(i))))
    ELSE size

sampleToSize(box, start, length) ==
    IF box.hasTable
    THEN sampleToSizeLoop(box.table, start, start + length, Num(0))
    ELSE IF length > 0 THEN TypeError ELSE Num(0)

chunkToOffset(table, chunk) == JsIndex(table, chunk)

sampleToOffset(stscT, stcoT, box, sample) ==
    LET res == sampleToChunk(stscT, sample)
    IN IF ~res.defined THEN TypeError
       ELSE LET offset == chunkToOffset(stcoT, res.index)
                size == sampleToSize(box, sample - res.offset, res.offset)
            IN IF Raised(size) THEN TypeError ELSE JsAdd(offset, size)

----------------------------------------------------------------------------
(* Track.getSampleNALUnits *)

\* ByteStream.readU32 at a 0-based position: 4 bytes, big-endian
readU32(buf, pos) ==
    ((buf[pos + 1] * 256 + buf[pos + 2]) * 256 + buf[pos + 3]) * 256 + buf[pos + 4]

\* Uint8Array.subarray(begin, end), 0-based, clamped to the buffer
subarray(buf, begin, end) ==
    LET b == IF begin > Len(buf) THEN Len(buf) ELSE begin
        e == IF end > Len(buf) THEN Len(buf) ELSE end
    IN SubSeq(buf, b + 1, e)

NalResult(kind, units, offset, end) ==
    [k |-> kind, units |-> units, offset |-> offset, end |-> end]

\* while (end - offset > 0) { read length; push payload; advance }
RECURSIVE nalLoop(_, _, _, _)
nalLoop(buf, offset, end, nalUnits) ==
    IF end - offset > 0
    THEN LET length == readU32(buf, offset)
         IN nalLoop(buf, offset + length + 4, end,
                    Append(nalUnits, subarray(buf, offset + 4, offset + length + 4)))
    ELSE NalResult("units", nalUnits, Num(offset), Num(end))

getSampleNALUnits(buf, stscT, stcoT, box, sample) ==
    LET offset == sampleToOffset(stscT, stcoT, box, sample)
        size == sampleToSize(box, sample, 1)
    IN IF Raised(offset) \/ Raised(size)
       THEN NalResult("TypeError", <<>>, Undefined, Undefined)
       ELSE LET end == JsAdd(offset, size)
            IN IF IsInt(offset) /\ IsInt(end)
               THEN nalLoop(buf, offset.n, end.n, <<>>)
               ELSE NalResult("units", <<>>, offset, end)  \* NaN - NaN > 0 is false

----------------------------------------------------------------------------
(* Track.timeToSample, Track.getTotalTime *)

\* timeToSampleLoop with a fault: the samples of the rows passed are not counted
RECURSIVE timeToSampleLoopNoCount(_, _, _, _)
timeToSampleLoopNoCount(table, i, time, sample) ==
    IF i > Len(table) THEN Undefined
    ELSE LET delta == table[i].count * table[i].delta
         IN IF time >= delta
            THEN timeToSampleLoopNoCount(table, i + 1, time - delta, sample)
            ELSE Num(sample + (time \div table[i].delta))

\* the loop over the stts rows, from row i (1-based) on
RECURSIVE timeToSampleLoop(_, _, _, _)
timeToSampleLoop(table, i, time, sample) ==
    IF i > Len(table) THEN Undefined
    ELSE LET delta == table[i].count * table[i].delta
         IN IF time >= delta
            THEN timeToSampleLoop(table, i + 1, time - delta, sample + table[i].count)
            ELSE Num(sample + (time \div table[i].delta))

timeToSample(table, time) == timeToSampleLoop(table, 1, time, 0)

\* the PARANOID loop: duration += count * delta
RECURSIVE sttsDuration(_, _)
sttsDuration(table, i) ==
    IF i > Len(table) THEN 0
    ELSE table[i].count * table[i].delta + sttsDuration(table, i + 1)

\* returns mdhd.duration, whatever the PARANOID sum was
getTotalTime(table, duration) == duration

getTotalTimeErrors(table, duration) == assert(duration = sttsDuration(table, 1))

----------------------------------------------------------------------------
(* The tables a track can hold *)

StscRows == [firstChunk : 1..MaxFirstChunk, samplesPerChunk : 1..MaxSamplesPerChunk]

\* firstChunk starts at 1 and increases strictly
StscTables ==
    { t \in UNION { [1..n -> StscRows] : n \in 1..MaxRows } :
        /\ t[1].firstChunk = 1
        /\ \A i \in 2..Len(t) : t[i].firstChunk > t[i - 1].firstChunk }

NoStsz == [sampleSize |-> 0, hasTable |-> TRUE, table |-> <<>>]
NoBox == [type |-> "none"]
NoCall == [op |-> "none"]
NoRet == [k |-> "none"]
NoPlayer == [k |-> "none"]

----------------------------------------------------------------------------
(* Specification of the sample-to-chunk queries *)

InitChunk ==
    /\ stsc \in StscTables
    /\ stco = <<>>
    /\ stsz = NoStsz
    /\ declCount = 0
    /\ stts = <<>>
    /\ mdhdDuration = 0
    /\ bytes = <<>>
    /\ boxIn = NoBox
    /\ call = NoCall
    /\ ret = NoRet
    /\ console = 0
    /\ player = NoPlayer

CallSampleToChunk ==
    \E sample \in 0..MaxSample :
        /\ call' = [op |-> "sampleToChunk", sample |-> sample]
        /\ ret' = sampleToChunk(stsc, sample)
        /\ console' = sampleToChunkErrors(stsc, sample)
        /\ UNCHANGED <<stsc, stco, stsz, declCount, stts, mdhdDuration, bytes, boxIn, player>>

NextChunk == CallSampleToChunk

SpecChunk == InitChunk /\ [][NextChunk]_vars

----------------------------------------------------------------------------
(* Reference: the run-length stsc table expanded chunk by chunk *)

\* samples per chunk of the 1-based chunk c: the last row whose firstChunk <= c
RefSamplesPerChunk(table, c) ==
    LET i == CHOOSE j \in 1..Len(table) :
                 /\ table[j].firstChunk <= c
                 /\ (j = Len(table) \/ table[j + 1].firstChunk > c)
    IN table[i].samplesPerChunk

\* walk the chunks from chunk c (1-based) with `sample` samples still to skip
RECURSIVE RefWalk(_, _, _)
RefWalk(table, c, sample) ==
    IF sample < RefSamplesPerChunk(table, c)
    THEN [index |-> c - 1, offset |-> sample]
    ELSE RefWalk(table, c + 1, sample - RefSamplesPerChunk(table, c))

RefSampleToChunk(table, sample) == RefWalk(table, 1, sample)

\* C1: for a single-row stsc table sampleToChunk(s) returns the integer chunk
\* index floor(s / n) and the position s mod n, also when s is not a multiple of n.
C1_SingleRowFloor ==
    (call.op = "sampleToChunk" /\ Len(stsc) = 1)
        => /\ ret.index = Num(call.sample \div stsc[1].samplesPerChunk)
           /\ ret.offset = call.sample % stsc[1].samplesPerChunk

\* C2: for a table of two or more rows sampleToChunk(s) returns the 0-based chunk
\* holding s and the position of s in it, equal to the chunk-by-chunk expansion
\* of the run-length table, the last row being open-ended.
C2_MultiRowMatchesExpansion ==
    (call.op = "sampleToChunk" /\ Len(stsc) >= 2)
        => /\ ret.defined
           /\ ret.index = Num(RefSampleToChunk(stsc, call.sample).index)
           /\ ret.offset = RefSampleToChunk(stsc, call.sample).offset

\* a query answered from the open-ended last row of a three-row table, not at a
\* chunk boundary of the rows before it
C2_Witness ==
    /\ call.op = "sampleToChunk"
    /\ Len(stsc) = 3
    /\ stsc[3].samplesPerChunk = 2
    /\ call.sample > (stsc[2].firstChunk - 1) * stsc[1].samplesPerChunk
                     + (stsc[3].firstChunk - stsc[2].firstChunk) * stsc[2].samplesPerChunk + 2
    /\ ret.offset = 1
    /\ ret.index = Num(stsc[3].firstChunk)

----------------------------------------------------------------------------
(* Specification of the time queries *)

SttsRows == [count : 1..MaxCount, delta : 1..MaxDelta]

\* the table of the comment in timeToSample: 9 samples, total time 20
DocumentedStts ==
    <<[count |-> 4, delta |-> 3], [count |-> 2, delta |-> 1], [count |-> 3, delta |-> 2]>>

SttsTables == UNION { [1..n -> SttsRows] : n \in 1..MaxSttsRows } \cup {DocumentedStts}

InitTime ==
    /\ stts \in SttsTables
    /\ mdhdDuration \in { d \in {sttsDuration(stts, 1) - 1, sttsDuration(stts, 1),
                                  sttsDuration(stts, 1) + 1} : d >= 0 }
    /\ stsc = <<>>
    /\ stco = <<>>
    /\ stsz = NoStsz
    /\ declCount = 0
    /\ bytes = <<>>
    /\ boxIn = NoBox
    /\ call = NoCall
    /\ ret = NoRet
    /\ console = 0
    /\ player = NoPlayer

CallTimeToSample ==
    \E time \in 0..(sttsDuration(stts, 1) + 1) :
        /\ call' = [op |-> "timeToSample", time |-> time]
        /\ ret' = timeToSample(stts, time)
        /\ console' = 0
        /\ UNCHANGED <<stsc, stco, stsz, declCount, stts, mdhdDuration, bytes, boxIn, player>>

CallGetTotalTime ==
    /\ call' = [op |-> "getTotalTime"]
    /\ ret' = Num(getTotalTime(stts, mdhdDuration))
    /\ console' = getTotalTimeErrors(stts, mdhdDuration)
    /\ UNCHANGED <<stsc, stco, stsz, declCount, stts, mdhdDuration, bytes, boxIn, player>>

NextTime == CallTimeToSample \/ CallGetTotalTime

SpecTime == InitTime /\ [][NextTime]_vars

\* Reference: the stts table expanded into one delta per sample
RECURSIVE RefDeltas(_, _)
RefDeltas(table, i) ==
    IF i > Len(table) THEN <<>>
    ELSE [j \in 1..table[i].count |-> table[i].delta] \o RefDeltas(table, i + 1)

\* start time of the 0-based sample s
RECURSIVE RefStart(_, _)
RefStart(deltas, s) == IF s = 0 THEN 0 ELSE RefStart(deltas, s - 1) + deltas[s]

\* C4: for rows with count >= 1 and delta >= 1 and every tick t below the total
\* duration, timeToSample(t) is the unique sample whose interval
\* [start(s), start(s) + delta(s)) contains t; timeToSample(0) = 0 and
\* timeToSample(total - 1) is the last sample.
C4_TimeToSampleInterval ==
    (call.op = "timeToSample" /\ call.time < sttsDuration(stts, 1))
        => LET deltas == RefDeltas(stts, 1)
           IN /\ IsInt(ret)
              /\ ret.n \in 0..(Len(deltas) - 1)
              /\ RefStart(deltas, ret.n) <= call.time
              /\ call.time < RefStart(deltas, ret.n) + deltas[ret.n + 1]
              /\ (call.time = 0 => ret.n = 0)
              /\ (call.time = sttsDuration(stts, 1) - 1 => ret.n = Len(deltas) - 1)
              /\ (stts = DocumentedStts /\ call.time = 12 => ret.n = 4)
              /\ (stts = DocumentedStts /\ call.time = 19 => ret.n = 8)

\* the last tick of the documented table resolves to its last sample, 8
C4_Witness ==
    /\ call.op = "timeToSample"
    /\ stts = DocumentedStts
    /\ call.time = 19
    /\ ret = Num(8)

\* C5: getTotalTime() is the sum of count * delta over the stts rows, also
\* when the declared mdhd.duration differs from that sum.
C5_ReturnsSttsSum ==
    call.op = "getTotalTime" => ret = Num(sttsDuration(stts, 1))

----------------------------------------------------------------------------
(* Specification of the queries of a track with media data in the buffer *)

\* the contents of one sample: length-prefixed NAL units, well formed or not
SampleTwoUnits == <<0, 0, 0, 2, 170, 187, 0, 0, 0, 1, 204>>
SampleOneUnit == <<0, 0, 0, 1, 204>>
SampleEmptyUnit == <<0, 0, 0, 0>>
SampleOverrun == <<0, 0, 0, 3, 170>>       \* the prefix says 3, one byte follows
SampleTrailing == <<0, 0, 0, 1, 204, 0>>   \* one byte after the last unit

SampleContents ==
    {SampleTwoUnits, SampleOneUnit, SampleEmptyUnit, SampleOverrun, SampleTrailing}

SampleLists == UNION { [1..n -> SampleContents] : n \in 1..MaxSamples }

TrackStscTables ==
    { t \in StscTables :
        /\ Len(t) <= MaxTrackRows
        /\ \A i \in 1..Len(t) : /\ t[i].firstChunk <= MaxTrackFirstChunk
                                /\ t[i].samplesPerChunk <= MaxTrackSamplesPerChunk }

Zeros(n) == [i \in 1..n |-> 0]

\* the buffer and the chunk offsets: the samples in order, each chunk's samples
\* contiguous, `gap` unused bytes before every chunk but the first
RECURSIVE Layout(_, _, _, _, _, _)
Layout(samples, table, gap, s, buf, offsets) ==
    IF s = Len(samples)
    THEN [bytes |-> buf \o Zeros(TailPad), stco |-> offsets]
    ELSE LET first == RefSampleToChunk(table, s).offset = 0
             at == buf \o (IF first /\ s > 0 THEN Zeros(gap) ELSE <<>>)
         IN Layout(samples, table, gap, s + 1, at \o samples[s + 1],
                   IF first THEN Append(offsets, Len(at)) ELSE offsets)

Sizes(samples) == [i \in 1..Len(samples) |-> Len(samples[i])]

\* the stsz fields of the stream: a size table, or one size for all samples
StszFields(samples) ==
    {[sampleSize |-> 0, entries |-> Sizes(samples)]}
    \cup { [sampleSize |-> z, entries |-> <<>>] : z \in
            { y \in {Len(samples[1])} : \A i \in 1..Len(samples) : Len(samples[i]) = y } }

InitTrack ==
    \E samples \in SampleLists, table \in TrackStscTables, gap \in 0..MaxGap :
        \E f \in StszFields(samples) :
            LET l == Layout(samples, table, gap, 0, Zeros(BOX_HEADER_SIZE), <<>>)
            IN /\ stsc = table
               /\ stco = l.stco
               /\ bytes = l.bytes
               /\ declCount = Len(samples)
               /\ stsz = readStsz(f.sampleSize, Len(samples), f.entries)
               /\ stts = <<>>
               /\ mdhdDuration = 0
               /\ boxIn = NoBox
               /\ call = NoCall
               /\ ret = NoRet
               /\ console = 0
               /\ player = NoPlayer

TrackUnchanged == UNCHANGED <<stsc, stco, stsz, declCount, stts, mdhdDuration, bytes, boxIn, player>>

CallGetSampleCount ==
    /\ call' = [op |-> "getSampleCount"]
    /\ ret' = getSampleCount(stsz)
    /\ console' = 0
    /\ TrackUnchanged

CallSampleToSize ==
    \E start \in 0..declCount, length \in 0..2 :
        /\ call' = [op |-> "sampleToSize", sample |-> start, length |-> length]
        /\ ret' = sampleToSize(stsz, start, length)
        /\ console' = 0
        /\ TrackUnchanged

CallChunkToOffset ==
    \E chunk \in 0..MaxChunkArg :
        /\ call' = [op |-> "chunkToOffset", chunk |-> chunk]
        /\ ret' = chunkToOffset(stco, Num(chunk))
        /\ console' = 0
        /\ TrackUnchanged

CallSampleToOffset ==
    \E sample \in 0..(declCount + 1) :
        /\ call' = [op |-> "sampleToOffset", sample |-> sample]
        /\ ret' = sampleToOffset(stsc, stco, stsz, sample)
        /\ console' = sampleToChunkErrors(stsc, sample)
        /\ TrackUnchanged

CallGetSampleNALUnits ==
    \E sample \in 0..(declCount + 1) :
        /\ call' = [op |-> "getSampleNALUnits", sample |-> sample]
        /\ ret' = getSampleNALUnits(bytes, stsc, stco, stsz, sample)
        /\ console' = sampleToChunkErrors(stsc, sample)
        /\ TrackUnchanged

NextTrack ==
    \/ CallGetSampleCount
    \/ CallSampleToSize
    \/ CallChunkToOffset
    \/ CallSampleToOffset
    \/ CallGetSampleNALUnits

SpecTrack == InitTrack /\ [][NextTrack]_vars

----------------------------------------------------------------------------
(* Reference: where the samples of the track lie in the buffer *)

\* size of the 0-based sample i, from the table or the uniform size
RefSize(i) == IF stsz.hasTable THEN stsz.table[i + 1] ELSE stsz.sampleSize

\* total size of the samples i - k .. i - 1
RECURSIVE RefSizeBefore(_, _)
RefSizeBefore(i, k) == IF k = 0 THEN 0 ELSE RefSize(i - 1) + RefSizeBefore(i - 1, k - 1)

\* first byte of the 0-based sample i: its chunk's offset plus the sizes of the
\* samples before it in the chunk
RefSampleOffset(i) ==
    LET r == RefSampleToChunk(stsc, i)
    IN stco[r.index + 1] + RefSizeBefore(i, r.offset)

\* total size of the samples of the 0-based chunk c
RefChunkSize(c) ==
    LET in == { i \in 0..(declCount - 1) : RefSampleToChunk(stsc, i).index = c }
        last == CHOOSE i \in in : \A j \in in : j <= i
    IN RefSizeBefore(last + 1, Cardinality(in))

\* chunks in increasing, non-overlapping byte order
LayoutOrdered ==
    \A c \in 1..(Len(stco) - 1) : stco[c + 1] >= stco[c] + RefChunkSize(c - 1)

\* [off, end) is a concatenation of units: a 4-byte length L, then L bytes
RECURSIVE RefWellFormed(_, _, _)
RefWellFormed(buf, off, end) ==
    \/ off = end
    \/ /\ off + 4 <= end
       /\ off + 4 + readU32(buf, off) <= end
       /\ RefWellFormed(buf, off + 4 + readU32(buf, off), end)

\* the payloads of a well-formed range, in stream order
RECURSIVE RefUnits(_, _, _)
RefUnits(buf, off, end) ==
    IF off >= end THEN <<>>
    ELSE <<SubSeq(buf, off + 5, off + 4 + readU32(buf, off))>>
         \o RefUnits(buf, off + 4 + readU32(buf, off), end)

\* C3: on a track whose chunks lie in increasing, non-overlapping byte order,
\* sampleToOffset(s) is the chunk's offset plus the sizes of the samples before s
\* in the chunk, and sampleToOffset(s) <= sampleToOffset(t) for all samples
\* s < t, for single-row and multi-row stsc tables alike.
C3_SampleToOffsetMonotone ==
    (/\ call.op = "sampleToOffset"
     /\ call.sample < declCount
     /\ stsz.hasTable
     /\ LayoutOrdered)
        => /\ ret = Num(RefSampleOffset(call.sample))
           /\ \A t \in (call.sample + 1)..(declCount - 1) :
                  JsLeq(ret, sampleToOffset(stsc, stco, stsz, t))

\* C6: for a sample whose byte range is a concatenation of length-prefixed units
\* summing to the sample's size, getSampleNALUnits returns exactly the payloads in
\* stream order and stops with the cursor at the sample's end.
C6_UnitsOfWellFormedSample ==
    (/\ call.op = "getSampleNALUnits"
     /\ call.sample < declCount
     /\ stsz.hasTable
     /\ RefWellFormed(bytes, RefSampleOffset(call.sample),
                      RefSampleOffset(call.sample) + RefSize(call.sample)))
        => /\ ret.k = "units"
           /\ ret.units = RefUnits(bytes, RefSampleOffset(call.sample),
                                   RefSampleOffset(call.sample) + RefSize(call.sample))
           /\ ret.offset = Num(RefSampleOffset(call.sample) + RefSize(call.sample))

\* C7: getSampleNALUnits fails with a format error whenever a length prefix read
\* inside the sample makes the unit extend past the sample's end, and never
\* returns a unit holding bytes beyond the sample's byte range.
C7_OverrunIsFormatError ==
    (call.op = "getSampleNALUnits" /\ call.sample < declCount /\ stsz.hasTable)
        => /\ ~RefWellFormed(bytes, RefSampleOffset(call.sample),
                             RefSampleOffset(call.sample) + RefSize(call.sample))
                  => ret.k = "FormatError"
           /\ ret.k = "units" => ~JsGt(ret.offset, ret.end)

\* C9: getSampleCount() returns the sample count declared in the stsz box, for a
\* uniform-size track as for a track with a size table, and does not fail.
C9_SampleCountDeclared ==
    call.op = "getSampleCount" => ret = Num(declCount)

\* C10: a query with a chunk or sample index beyond the tables reports an error
\* to the caller and returns no value.
C10_OutOfRangeReported ==
    /\ (call.op = "chunkToOffset" /\ call.chunk >= Len(stco)) => Raised(ret)
    /\ (call.op = "sampleToSize" /\ call.length >= 1
            /\ call.sample + call.length > declCount) => Raised(ret)
    /\ (call.op = "sampleToOffset" /\ call.sample >= declCount) => Raised(ret)
    /\ (call.op = "getSampleNALUnits" /\ call.sample >= declCount) => ret.k = "TypeError"

----------------------------------------------------------------------------
(* Specification of readBox on the boxes that carry an asserted field *)

Offsets == { 8 * i : i \in 0..MaxBoxOffset }
IdentityMatrix == <<65536, 0, 0, 0, 65536, 0, 0, 0, 1073741824>>

MvhdInputs ==
    { [type |-> "mvhd", offset |-> o, size |-> 108, version |-> v, flags |-> f,
       creationTime |-> 0, modificationTime |-> 0, timeScale |-> i, duration |-> 20,
       rate |-> 1, volume |-> 1, matrix |-> IdentityMatrix, nextTrackId |-> 3] :
      o \in Offsets, v \in 0..MaxVersion, f \in 0..MaxFlags, i \in 1..MaxId }

TkhdInputs ==
    { [type |-> "tkhd", offset |-> o, size |-> 92, version |-> v, flags |-> f,
       creationTime |-> 0, modificationTime |-> 0, trackId |-> i, duration |-> 20,
       layer |-> 0, alternateGroup |-> 0, volume |-> 0, matrix |-> IdentityMatrix,
       width |-> 640, height |-> 368] :
      o \in Offsets, v \in 0..MaxVersion, f \in 0..MaxFlags, i \in 1..MaxId }

MdhdInputs ==
    { [type |-> "mdhd", offset |-> o, size |-> 32, version |-> v, flags |-> f,
       creationTime |-> 0, modificationTime |-> 0, timeScale |-> i, duration |-> 20,
       language |-> "und"] :
      o \in Offsets, v \in 0..MaxVersion, f \in 0..MaxFlags, i \in 1..MaxId }

Avc1Inputs ==
    { [type |-> "avc1", offset |-> o, size |-> 86, dataReferenceIndex |-> 1,
       version |-> v, revision |-> 0, reserved |-> 0, width |-> 640, height |-> 368,
       horizontalResolution |-> 72, verticalResolution |-> 72, frameCount |-> 1,
       compressorName |-> "", depth |-> 24, colorTableId |-> c] :
      o \in Offsets, v \in 0..MaxVersion, c \in {65535, 0} }

Mp4aInputs ==
    { [type |-> "mp4a", offset |-> o, size |-> 36, dataReferenceIndex |-> 1,
       version |-> v, channelCount |-> i, sampleSize |-> 16, compressionId |-> 0,
       packetSize |-> 0, sampleRate |-> 8000 * 65536] :
      o \in Offsets, v \in 0..MaxVersion, i \in 1..MaxId }

AvcCInputs ==
    { [type |-> "avcC", offset |-> o, size |-> 8 + 5 + 1 + 4 + 1 + 3,
       configurationVersion |-> 1, profileIndication |-> 66, profileCompatibility |-> 0,
       levelIndication |-> 30, lengthSizeByte |-> 252 + l,
       spsCountByte |-> 225, sps |-> <<(<<103, 66>>)>>,
       ppsCountByte |-> 1, pps |-> <<(<<104>>)>>] :
      o \in Offsets, l \in 0..3 }

BoxInputs ==
    MvhdInputs \cup TkhdInputs \cup MdhdInputs \cup Avc1Inputs \cup Mp4aInputs \cup AvcCInputs

InitBox ==
    /\ boxIn \in BoxInputs
    /\ stsc = <<>>
    /\ stco = <<>>
    /\ stsz = NoStsz
    /\ declCount = 0
    /\ stts = <<>>
    /\ mdhdDuration = 0
    /\ bytes = <<>>
    /\ call = NoCall
    /\ ret = NoRet
    /\ console = 0
    /\ player = NoPlayer

CallReadBox ==
    /\ call' = [op |-> "readBox"]
    /\ ret' = readBox(boxIn)
    /\ console' = readBox(boxIn).errors
    /\ UNCHANGED <<stsc, stco, stsz, declCount, stts, mdhdDuration, bytes, boxIn, player>>

NextBox == CallReadBox

SpecBox == InitBox /\ [][NextBox]_vars

\* the structural assumption of the box's type does not hold in the stream
AssumptionViolated(in) ==
    \/ in.type \in {"mvhd", "tkhd", "mdhd", "mp4a"} /\ in.version # 0
    \/ in.type = "avcC" /\ in.lengthSizeByte % 4 # 3
    \/ in.type = "avc1" /\ in.colorTableId # 65535

\* the fields readBox assigns after the assertion of the box's type
FieldsAfterAssert(type) ==
    CASE type = "mvhd" -> {"creationTime", "modificationTime", "timeScale", "duration",
                           "rate", "volume", "matrix", "nextTrackId"}
      [] type = "tkhd" -> {"creationTime", "modificationTime", "trackId", "duration",
                           "layer", "alternateGroup", "volume", "matrix", "width", "height"}
      [] type = "mdhd" -> {"creationTime", "modificationTime", "timeScale", "duration",
                           "language"}
      [] type = "avcC" -> {"sps", "pps"}
      [] OTHER -> {}

\* C8: when readBox meets a violated structural assumption it raises a format
\* error and stops: it returns no box and reads none of the fields that follow
\* the assertion (a tkhd of version 1 raises and no tkhd field is read).
C8_ViolationRaises ==
    (call.op = "readBox" /\ AssumptionViolated(boxIn))
        => /\ ret.k = "FormatError"
           /\ DOMAIN ret.box \cap FieldsAfterAssert(boxIn.type) = {}

----------------------------------------------------------------------------
(* Four-character codes, as the four character codes of the bytes.  Only a  *)
(* property whose name has four characters can equal the type of a box, so  *)
(* the properties of a box are keyed by such tuples.                        *)

CC(name) ==
    CASE name = "ftyp" -> <<102, 116, 121, 112>>
      [] name = "moov" -> <<109, 111, 111, 118>>
      [] name = "mvhd" -> <<109, 118, 104, 100>>
      [] name = "trak" -> <<116, 114, 97, 107>>
      [] name = "tkhd" -> <<116, 107, 104, 100>>
      [] name = "mdia" -> <<109, 100, 105, 97>>
      [] name = "mdhd" -> <<109, 100, 104, 100>>
      [] name = "hdlr" -> <<104, 100, 108, 114>>
      [] name = "minf" -> <<109, 105, 110, 102>>
      [] name = "stbl" -> <<115, 116, 98, 108>>
      [] name = "stsd" -> <<115, 116, 115, 100>>
      [] name = "avc1" -> <<97, 118, 99, 49>>
      [] name = "mp4a" -> <<109, 112, 52, 97>>
      [] name = "esds" -> <<101, 115, 100, 115>>
      [] name = "avcC" -> <<97, 118, 99, 67>>
      [] name = "btrt" -> <<98, 116, 114, 116>>
      [] name = "stts" -> <<115, 116, 116, 115>>
      [] name = "stss" -> <<115, 116, 115, 115>>
      [] name = "stsc" -> <<115, 116, 115, 99>>
      [] name = "stsz" -> <<115, 116, 115, 122>>
      [] name = "stco" -> <<115, 116, 99, 111>>
      [] name = "smhd" -> <<115, 109, 104, 100>>
      [] name = "mdat" -> <<109, 100, 97, 116>>
      [] name = "free" -> <<102, 114, 101, 101>>
      [] name = "udta" -> <<117, 100, 116, 97>>
      [] name = "name" -> <<110, 97, 109, 101>>
      [] name = "size" -> <<115, 105, 122, 101>>
      [] name = "type" -> <<116, 121, 112, 101>>
      [] name = "data" -> <<100, 97, 116, 97>>
      [] name = "rate" -> <<114, 97, 116, 101>>
      [] name = "null" -> <<110, 117, 108, 108>>

----------------------------------------------------------------------------
(* The byte cursor (ByteStream): a window [start, end) of the buffer with a *)
(* position.  A read that would pass `end` returns null and does not move;  *)
(* skip always moves.                                                       *)

Stream(start, length) == [start |-> start, pos |-> start, end |-> start + length]

\* the w bytes at the 0-based position p, big-endian
RECURSIVE BigEndian(_, _, _)
BigEndian(buf, p, w) ==
    IF w = 0 THEN 0 ELSE BigEndian(buf, p, w - 1) * 256 + buf[p + w]

\* stream.peek32(): null (0 here, as falsy) when fewer than 4 bytes remain
peek32(buf, s) == IF s.pos > s.end - 4 THEN 0 ELSE readU32(buf, s.pos)

\* Rest applied to a value that is computed first, and once
Then(value, Rest(_)) == CHOOSE out \in {Rest(v) : v \in {value}} : TRUE

\* one read (w >= 0: w bytes, null and no move past the end) or skip
\* (w < 0: -w bytes) at position q
PosStep(q, end, w) == IF w < 0 THEN q - w ELSE IF q + w > end THEN q ELSE q + w

\* the position after items i..j of a list of reads and skips begun at q:
\* the first half of the list, then the second from where the first ended
RECURSIVE PosFrom(_, _, _, _, _)
PosFrom(q, end, widths, i, j) ==
    IF i > j THEN q
    ELSE IF i = j THEN PosStep(q, end, widths[i])
    ELSE LET Second(left) == PosFrom(left, end, widths, (i + j) \div 2 + 1, j)
         IN Then(PosFrom(q, end, widths, i, (i + j) \div 2), Second)

\* the position after the first k items
PosAfter(s, widths, k) == PosFrom(s.pos, s.end, widths, 1, k)

\* the value of the k-th item, a read of at most 4 bytes: null is 0, as in
\* arithmetic; where the code tells null from 0, IsNull says which it is
ValueOf(buf, s, widths, k) ==
    LET q == PosAfter(s, widths, k - 1)
    IN IF q + widths[k] > s.end THEN 0 ELSE BigEndian(buf, q, widths[k])

\* whether the k-th item, a read, returned null
IsNull(s, widths, k) == PosAfter(s, widths, k - 1) + widths[k] > s.end

\* stream.read4CC() at position q: null when fewer than 4 bytes remain
read4CC(buf, s, q) ==
    IF q > s.end - 4 THEN CC("null") ELSE SubSeq(buf, q + 1, q + 4)

\* the cursor moved to position q
At(s, q) == [s EXCEPT !.pos = q]

\* rows of `cols` 32-bit fields from position q on
U32Rows(buf, q, rows, cols) ==
    [i \in 1..rows |-> [j \in 1..cols |-> readU32(buf, q + ((i - 1) * cols + (j - 1)) * 4)]]

U32List(buf, q, rows) == [i \in 1..rows |-> readU32(buf, q + (i - 1) * 4)]

----------------------------------------------------------------------------
(* MP4Reader.readBox and readBoxes on the byte stream.                      *)
(* A box is [offset, size, type, props, fields]: `props` maps each property *)
(* of the JavaScript object that a child box can be filed under to what it  *)
(* holds (a field the parser set itself, one child box, or an array), and   *)
(* `fields` are the parsed values later code reads.  `size` and `type` stay *)
(* the header's values whatever `props` says the properties now hold.       *)
(* A property name is the four character codes of a box type, or, for the   *)
(* string an array converts to, five numbers (see TypeKey).                 *)

Own == [tag |-> "own"]
OneBox(b) == [tag |-> "box", box |-> b]
Arr(items) == [tag |-> "arr", items |-> items]

NoProps == [key \in {} |-> Own]

\* the object literal of read(): this.file = {}
File == [offset |-> 0 - 1, size |-> 0, type |-> <<>>, props |-> NoProps, fields |-> [none |-> TRUE]]

\* obj[key] = slot
SetProp(props, key, slot) ==
    [x \in DOMAIN props \cup {key} |-> IF x = key THEN slot ELSE props[x]]

\* The property name child.type converts to when the loop of readBoxes
\* files the child.  A child whose own children had the type 'type' holds
\* the array [type, box, ...] there, and the name is the string
\* "moov,[object Object],...": the type followed by the number of boxes.
TypeKey(child) ==
    LET slot == child.props[CC("type")]
    IN IF slot.tag = "arr" THEN child.type \o <<Len(slot.items) - 1>> ELSE child.type

\* the body of the while loop of readBoxes after readBox returned `child`
attach(parent, child) ==
    LET key == TypeKey(child)
    IN IF key \in DOMAIN parent.props
       THEN LET old == parent.props[key]
                arr == IF old.tag = "arr" THEN old.items ELSE <<old>>
            IN [parent EXCEPT !.props = SetProp(parent.props, key, Arr(Append(arr, OneBox(child))))]
       ELSE [parent EXCEPT !.props = SetProp(parent.props, key, OneBox(child))]

\* the types whose case sets box.name
Named ==
    {CC(n) : n \in {"ftyp", "moov", "mvhd", "trak", "tkhd", "mdia", "mdhd", "hdlr", "minf",
                    "stbl", "stsd", "esds", "avcC", "btrt", "stts", "stss", "stsc", "stsz",
                    "stco", "smhd", "mdat"}}

\* the four-character properties readBox itself sets on a box of this type
OwnProps(type) ==
    LET keys == {CC("size"), CC("type")}
                  \cup (IF type \in Named THEN {CC("name")} ELSE {})
                  \cup (IF type = CC("mvhd") THEN {CC("rate")} ELSE {})
                  \cup (IF type = CC("mdat") THEN {CC("data")} ELSE {})
    IN [key \in keys |-> Own]

\* the parser's state besides the cursor: this.tracks, console errors, and
\* the history of readBox calls that returned
ReaderState(tracks, errors, log) == [tracks |-> tracks, errors |-> errors, log |-> log]

NoTracks == [key \in {} |-> File]

\* stream.reserved(n, 0) at position q: n single-byte reads, each null
\* and not moving once the end is reached
reserved(q, end, n) ==
    LET left == IF end > q THEN end - q ELSE 0
    IN IF n <= 0 THEN q ELSE IF n < left THEN q + n ELSE q + left

\* readPString(32) at position q: a length byte, the string, the padding
readPString(buf, s, q) ==
    LET len == IF q + 1 > s.end THEN 0 ELSE buf[q + 1]
    IN reserved(PosFrom(q, s.end, <<1, len>>, 1, 2), s.end, 32 - len - 1)

\* stream.reserved(6, 0)
Reserved6 == <<1, 1, 1, 1, 1, 1>>

\* the reads and skips of the cases whose layout does not depend on the data
FixedWidths(type) ==
    CASE type = CC("mvhd") -> <<1, 3, 4, 4, 4, 4, 4, 2, 0 - 10, 36, 0 - 24, 4>>
      [] type = CC("tkhd") -> <<1, 3, 4, 4, 4, 0 - 4, 4, 0 - 8, 2, 2, 2, 0 - 2, 36, 4, 4>>
      [] type = CC("mdhd") -> <<1, 3, 4, 4, 4, 4, 2, 0 - 2>>
      [] type = CC("btrt") -> <<4, 4, 4>>
      [] type = CC("smhd") -> <<1, 3, 2, 1, 1>>
      [] type = CC("esds") -> <<1, 3>>
      [] type = CC("stsd") -> <<1, 3, 4>>
      [] type = CC("mp4a") -> Reserved6 \o <<2, 2, 0 - 2, 0 - 4, 2, 2, 2, 2, 4>>
      [] OTHER -> <<>>

\* for (i < count) push(stream.readU8Array(stream.readU16())): the arrays
\* and the position after them; a read past the end gives null (<<>> here)
RECURSIVE readParameterSets(_, _, _, _)
readParameterSets(buf, s, q, count) ==
    IF count = 0 THEN [sets |-> <<>>, pos |-> q]
    ELSE LET noLen == q + 2 > s.end
             len == IF noLen THEN 0 ELSE BigEndian(buf, q, 2)
             q1 == IF noLen THEN q ELSE q + 2
             noArr == q1 + len > s.end
             q2 == IF noArr THEN q1 ELSE q1 + len
             set == IF noArr THEN <<>> ELSE SubSeq(buf, q1 + 1, q1 + len)
             rest == readParameterSets(buf, s, q2, count - 1)
         IN [sets |-> <<set>> \o rest.sets, pos |-> rest.pos]

\* one entry of the history: a readBox call under the parent box at
\* `parent` (-1: the file) that began at `offset` and returned with the
\* cursor at `after`
LogEntry(parentOffset, box, after) ==
    [parent |-> parentOffset, offset |-> box.offset, size |-> box.size, type |-> box.type, after |-> after]

\* remainingBytes with a fault: the 8 header bytes are not counted as read
remainingBytesIgnoringHeader(box, q) == box.size - (q - (box.offset + BOX_HEADER_SIZE))

\* box.size - (stream.position - box.offset)
remainingBytes(box, q) == box.size - (q - box.offset)

\* box.trackId after a readU32() past the end: null, which as a property
\* name is "null"; no track id read from the stream is negative
NullId == 0 - 2

\* stream.readFP16() as the k-th read: the 32-bit word taken as a 16.16
\* fixed-point number
readFP16(buf, s, widths, k) == JsDiv(ValueOf(buf, s, widths, k), 65536)

\* the cases of readBox that read fields only; `sh` is the cursor after
\* the header.  Gives the box, the position after the case and the number
\* of failed asserts.
readLeaf(buf, sh, box) ==
    LET type == box.type
        fixed == FixedWidths(type)
        qf == PosAfter(sh, fixed, Len(fixed))
        versionErrors == assert((~IsNull(sh, fixed, 1)) /\ ValueOf(buf, sh, fixed, 1) = 0)
        Table(cols) ==
            LET w == <<1, 3, 4>>
                count == ValueOf(buf, sh, w, 3)
                qt == PosAfter(sh, w, 3)
                null == qt + count * cols * 4 > sh.end
            IN [box |-> [box EXCEPT !.fields =
                            [hasTable |-> ~null,
                             table |-> IF null THEN <<>>
                                       ELSE IF cols = 1 THEN U32List(buf, qt, count)
                                       ELSE U32Rows(buf, qt, count, cols)]],
                pos |-> IF null THEN qt ELSE qt + count * cols * 4,
                errors |-> 0]
    IN CASE type \in {CC("mvhd"), CC("mdhd")} ->
              [box |-> box, pos |-> qf, errors |-> versionErrors]
         [] type = CC("tkhd") ->
              [box |-> [box EXCEPT !.fields =
                          [trackId |-> IF IsNull(sh, fixed, 5) THEN NullId
                                       ELSE ValueOf(buf, sh, fixed, 5),
                           width |-> readFP16(buf, sh, fixed, 14),
                           height |-> readFP16(buf, sh, fixed, 15)]],
               pos |-> qf, errors |-> versionErrors]
         [] type \in {CC("btrt"), CC("smhd")} ->
              [box |-> box, pos |-> qf, errors |-> 0]
         [] type = CC("ftyp") ->
              LET n == (box.size - 16) \div 4
                  w == [i \in 1..(2 + n) |-> 4]
              IN [box |-> box, pos |-> PosAfter(sh, w, 2 + n), errors |-> 0]
         [] type = CC("hdlr") ->
              LET bytesLeft == box.size - 32
                  w == <<1, 3, 0 - 4, 4, 0 - 12>> \o (IF bytesLeft > 0 THEN <<bytesLeft>> ELSE <<>>)
              IN [box |-> box, pos |-> PosAfter(sh, w, Len(w)), errors |-> 0]
         [] type = CC("esds") ->
              [box |-> box, pos |-> qf + remainingBytes(box, qf), errors |-> 0]
         [] type = CC("avcC") ->
              LET w == <<1, 1, 1, 1, 1, 1>>
                  lengthSizeMinusOne == ValueOf(buf, sh, w, 5) % 4
                  sps == readParameterSets(buf, sh, PosAfter(sh, w, 6), ValueOf(buf, sh, w, 6) % 32)
                  noCount == sps.pos + 1 > sh.end
                  count == IF noCount THEN 0 ELSE buf[sps.pos + 1] % 32
                  pps == readParameterSets(buf, sh, IF noCount THEN sps.pos ELSE sps.pos + 1, count)
              IN [box |-> [box EXCEPT !.fields =
                             [lengthSizeMinusOne |-> lengthSizeMinusOne,
                              sps |-> sps.sets, pps |-> pps.sets]],
                  pos |-> pps.pos + remainingBytes(box, pps.pos),
                  errors |-> assert(lengthSizeMinusOne = 3)]
         [] type = CC("stts") ->
              LET t == Table(2)
              IN [t EXCEPT !.box.fields.table =
                     [i \in 1..Len(@) |-> [count |-> @[i][1], delta |-> @[i][2]]]]
         [] type = CC("stsc") ->
              LET t == Table(3)
              IN [t EXCEPT !.box.fields.table =
                     [i \in 1..Len(@) |-> [firstChunk |-> @[i][1], samplesPerChunk |-> @[i][2],
                                           sampleDescriptionId |-> @[i][3]]]]
         [] type \in {CC("stss"), CC("stco")} -> Table(1)
         [] type = CC("stsz") ->
              LET w == <<1, 3, 4, 4>>
                  sampleSize == ValueOf(buf, sh, w, 3)
                  count == ValueOf(buf, sh, w, 4)
                  qt == PosAfter(sh, w, 4)
                  null == IsNull(sh, w, 3) \/ sampleSize # 0 \/ qt + count * 4 > sh.end
              IN [box |-> [box EXCEPT !.fields =
                             [sampleSize |-> sampleSize, hasTable |-> ~null,
                              table |-> IF null THEN <<>> ELSE U32List(buf, qt, count)]],
                  pos |-> IF null THEN qt ELSE qt + count * 4,
                  errors |-> 0]
         [] type = CC("mdat") ->
              LET rem == remainingBytes(box, sh.pos)
                  null == rem < 0 \/ sh.pos + rem > sh.end
              IN [box |-> [box EXCEPT !.fields =
                             [data |-> IF null THEN <<>> ELSE SubSeq(buf, sh.pos + 1, sh.pos + rem)]],
                  pos |-> IF null THEN sh.pos ELSE sh.pos + rem,
                  errors |-> assert(box.size >= 8)]
         [] OTHER ->
              [box |-> box, pos |-> sh.pos + remainingBytes(box, sh.pos), errors |-> 0]

\* the reads of avc1 and mp4a before readRemainingBoxes(): the position
\* after them and the number of failed asserts
readSampleEntry(buf, sh, type) ==
    IF type = CC("avc1")
    THEN LET w1 == Reserved6 \o <<2, 2, 2, 4, 4, 4, 2, 2, 4, 4, 4, 2>>
             s1 == At(sh, readPString(buf, sh, PosAfter(sh, w1, Len(w1))))
             w2 == <<2, 2>>
             k == Len(w2)
             Zero(i) == (~IsNull(sh, w1, i)) /\ ValueOf(buf, sh, w1, i) = 0
         IN [pos |-> PosAfter(s1, w2, k),
             errors |-> assert(Zero(8)) + assert(Zero(9)) + assert(Zero(17))
                          + assert((~IsNull(s1, w2, k)) /\ ValueOf(buf, s1, w2, k) = 65535)]
    ELSE LET w == FixedWidths(type)
         IN [pos |-> PosAfter(sh, w, Len(w)),
             errors |-> IF type = CC("mp4a")
                        THEN assert((~IsNull(sh, w, 8)) /\ ValueOf(buf, sh, w, 8) = 0)
                        ELSE 0]

\* the types whose case ends in readRemainingBoxes()
Containers ==
    {CC(n) : n \in {"moov", "trak", "mdia", "minf", "stbl", "stsd", "avc1", "mp4a"}}

\* this.tracks[box.tkhd.trackId] = new Track(this, box): the property key.
\* box.tkhd is one box (its trackId, NullId for null) or an array
\* (undefined, -1 here).
TrackKey(slot) == IF slot.tag = "box" THEN slot.box.fields.trackId ELSE 0 - 1

\* readHeader(): the box after its header and the cursor after it
readHeader(buf, s) ==
    LET hdr == <<4, 4>>
        type == read4CC(buf, s, PosAfter(s, hdr, 1))
    IN [box |-> [offset |-> s.pos, size |-> ValueOf(buf, s, hdr, 1), type |-> type,
                 props |-> OwnProps(type), fields |-> [none |-> TRUE]],
        sh |-> At(s, PosAfter(s, hdr, 2))]

\* new Array((box.size - 16) / 4) throws for a length that is not a
\* non-negative integer
FtypThrows(box) == box.type = CC("ftyp") /\ (box.size < 16 \/ (box.size - 16) % 4 # 0)

\* readBox(stream) for a type whose case reads no child boxes
readBoxAt(buf, s) ==
    LET Finish(leaf) ==
            [box |-> leaf.box, s |-> At(s, leaf.pos), errors |-> leaf.errors, thrown |-> "none"]
        Case(h) ==
            IF FtypThrows(h.box)
            THEN [box |-> h.box, s |-> At(s, PosAfter(h.sh, <<4, 4>>, 2)), errors |-> 0,
                  thrown |-> "RangeError"]
            ELSE Then(readLeaf(buf, h.sh, h.box), Finish)
    IN Then(readHeader(buf, s), Case)

\* One activation of readBoxes(stream, parent): the parent as filled so
\* far, the cursor, and where the caller's cursor goes when it returns
\* (stream.skip(subStream.length) in readRemainingBoxes).
Frame(parent, s, after) == [box |-> parent, s |-> s, after |-> after]

\* The reader while read() runs: the activations of readBoxes, innermost
\* last, and the ReaderState.
Running(stack, st, thrown, done) == [stack |-> stack, st |-> st, thrown |-> thrown, done |-> done]

ReplaceTop(stack, frame) == [stack EXCEPT ![Len(stack)] = frame]

\* An exception leaves every activation: nothing catches it below read(),
\* so what stays is the outermost one, the reader's own stream and file.
Unwind(stack) == SubSeq(stack, 1, 1)

\* The innermost readBoxes finds peek32() falsy and returns into
\* readRemainingBoxes of its parent's readBox, which skips the caller's
\* stream over the sub-stream and finishes: the trak case registers the
\* track (or throws on box.tkhd.trackId), readBox returns, the caller's
\* loop attaches.
returnFromBoxes(m) ==
    LET n == Len(m.stack)
        f == m.stack[n]
        g == m.stack[n - 1]
        box == f.box
        isTrak == box.type = CC("trak")
        key == TrackKey(box.props[CC("tkhd")])
        tracks == IF isTrak
                  THEN [x \in DOMAIN m.st.tracks \cup {key} |-> IF x = key THEN box ELSE m.st.tracks[x]]
                  ELSE m.st.tracks
        st == ReaderState(tracks, m.st.errors, Append(m.st.log, LogEntry(g.box.offset, box, f.after)))
        caller == SubSeq(m.stack, 1, n - 1)
    IN IF n = 1 THEN Running(m.stack, m.st, "none", TRUE)
       ELSE IF isTrak /\ CC("tkhd") \notin DOMAIN box.props
       THEN Running(Unwind(ReplaceTop(caller, Frame(g.box, At(g.s, f.after), g.after))),
                    m.st, "TypeError", FALSE)
       ELSE Running(ReplaceTop(caller, Frame(attach(g.box, box), At(g.s, f.after), g.after)),
                    st, "none", FALSE)

\* The innermost readBoxes calls readBox: a container case reads its own
\* fields from the caller's stream and calls readBoxes on the sub-stream
\* that begins there; any other case runs to its end, or to its throw, and
\* the loop attaches the box.
callReadBox(buf, m) ==
    LET f == m.stack[Len(m.stack)]
        Container(h) ==
            LET Call(entry) ==
                    Running(Append(ReplaceTop(m.stack, Frame(f.box, At(f.s, entry.pos), f.after)),
                                   Frame(h.box, Stream(entry.pos, remainingBytes(h.box, entry.pos)),
                                         entry.pos + remainingBytes(h.box, entry.pos))),
                            ReaderState(m.st.tracks, m.st.errors + entry.errors, m.st.log),
                            "none", FALSE)
            IN Then(readSampleEntry(buf, h.sh, h.box.type), Call)
        Other(r) ==
            IF r.thrown # "none"
            THEN Running(Unwind(ReplaceTop(m.stack, Frame(f.box, r.s, f.after))), m.st, r.thrown, FALSE)
            ELSE Running(ReplaceTop(m.stack, Frame(attach(f.box, r.box), r.s, f.after)),
                         ReaderState(m.st.tracks, m.st.errors + r.errors,
                                     Append(m.st.log, LogEntry(f.box.offset, r.box, r.s.pos))),
                         "none", FALSE)
        Case(h) ==
            IF h.box.type \in Containers THEN Container(h) ELSE Then(readBoxAt(buf, f.s), Other)
    IN Then(readHeader(buf, f.s), Case)

\* one evaluation of while (stream.peek32()) in the innermost readBoxes
readBoxes(buf, m) ==
    IF m.done \/ m.thrown # "none" THEN m
    ELSE IF peek32(buf, m.stack[Len(m.stack)].s) = 0 THEN returnFromBoxes(m)
    ELSE callReadBox(buf, m)

\* the most loop evaluations followed
MaxSteps == 64

\* n loop evaluations, or fewer when read() has returned or thrown
RECURSIVE run(_, _, _)
run(buf, m, n) ==
    IF n <= 1 THEN (IF n = 1 THEN readBoxes(buf, m) ELSE m)
    ELSE LET Second(half) == IF half.done \/ half.thrown # "none" THEN half
                             ELSE run(buf, half, n - n \div 2)
         IN Then(run(buf, m, n \div 2), Second)

\* MP4Reader.read() on a reader constructed over the buffer: what the
\* reader holds when read returns or throws
read(buf) ==
    LET Reader(m) ==
            [file |-> m.stack[1].box, tracks |-> m.st.tracks, thrown |-> m.thrown, returned |-> m.done,
             errors |-> m.st.errors, log |-> m.st.log, position |-> m.stack[1].s.pos]
    IN Then(run(buf, Running(<<Frame(File, Stream(0, Len(buf)), 0)>>,
                             ReaderState(NoTracks, 0, <<>>), "none", FALSE), MaxSteps),
            Reader)

----------------------------------------------------------------------------
(* Byte streams to parse: an MP4 file written box by box, with the places   *)
(* where files differ left open.                                            *)

U16(n) == <<(n \div 256) % 256, n % 256>>
U32(n) == <<(n \div 16777216) % 256, (n \div 65536) % 256, (n \div 256) % 256, n % 256>>

\* a box whose declared size is the size of what is written
Box(name, payload) == U32(BOX_HEADER_SIZE + Len(payload)) \o CC(name) \o payload

\* a box whose header declares `size` whatever is written
BoxOfSize(size, name, payload) == U32(size) \o CC(name) \o payload

\* ftyp: major brand, minor version, one compatible brand; `size` declared
FtypBox(size) == BoxOfSize(size, "ftyp", CC("avc1") \o U32(0) \o CC("avc1"))

\* version 0 tkhd, 92 bytes; a non-empty `tail` stands for the fields of a
\* longer version, counted in the declared size
TkhdBox(trackId, tail) ==
    BoxOfSize(92 + Len(tail), "tkhd",
              U32(0) \o U32(0) \o U32(0) \o U32(trackId) \o U32(0) \o U32(0) \o U32(0) \o U32(0)
                \o U16(0) \o U16(0) \o U16(0) \o U16(0) \o Zeros(32) \o U32(1073741824)
                \o U32(16 * 65536) \o U32(16 * 65536)
                \o tail)

\* the last twelve bytes of a version 1 tkhd: matrix w, width, height
LongTkhdTail == U32(1073741824) \o U32(16 * 65536) \o U32(16 * 65536)

SpsBytes == <<103, 66>>
PpsBytes == <<104, 206>>

AvcCBox ==
    Box("avcC", <<1, 66, 0, 30, 255, 225>> \o U16(Len(SpsBytes)) \o SpsBytes
                  \o <<1>> \o U16(Len(PpsBytes)) \o PpsBytes)

Avc1Box ==
    Box("avc1", Zeros(6) \o U16(1) \o U16(0) \o U16(0) \o U32(0) \o U32(0) \o U32(0)
                  \o U16(16) \o U16(16) \o U32(72 * 65536) \o U32(72 * 65536) \o U32(0) \o U16(1)
                  \o Zeros(32) \o U16(24) \o U16(65535) \o AvcCBox)

StsdBox == Box("stsd", U32(0) \o U32(1) \o Avc1Box)

\* the sizes before the i-th of a list, summed
RECURSIVE RefSizeBeforeList(_, _)
RefSizeBeforeList(sizes, i) ==
    IF i <= 1 THEN 0 ELSE sizes[i - 1] + RefSizeBeforeList(sizes, i - 1)

\* the 32-bit fields of a list, one after the other
U32s(list) == [i \in 1..(4 * Len(list)) |-> U32(list[(i + 3) \div 4])[((i - 1) % 4) + 1]]

\* the samples of the given sizes, one per chunk, the chunks one after the
\* other from chunkOffset on
StblBox(chunkOffset, sizes) ==
    Box("stbl", StsdBox
                  \o Box("stts", U32(0) \o U32(1) \o U32(Len(sizes)) \o U32(1))
                  \o Box("stsc", U32(0) \o U32(1) \o U32(1) \o U32(1) \o U32(1))
                  \o Box("stsz", U32(0) \o U32(0) \o U32(Len(sizes)) \o U32s(sizes))
                  \o Box("stco", U32(0) \o U32(Len(sizes))
                                   \o U32s([i \in 1..Len(sizes) |-> chunkOffset + RefSizeBeforeList(sizes, i)])))

MdiaBox(chunkOffset, sizes) ==
    Box("mdia", Box("mdhd", U32(0) \o U32(0) \o U32(0) \o U32(25) \o U32(Len(sizes)) \o U16(0) \o U16(0))
                  \o Box("minf", StblBox(chunkOffset, sizes)))

MvhdBox ==
    Box("mvhd", U32(0) \o U32(0) \o U32(0) \o U32(25) \o U32(2) \o U32(65536) \o U16(256)
                  \o Zeros(10) \o Zeros(36) \o Zeros(24) \o U32(3))

\* the samples of the video track: one length-prefixed unit each
SampleData == U32(1) \o <<101>> \o U32(1) \o <<65>>
SampleSizes == <<5, 5>>

\* the longest payload written into a box of a type readBox does not know
MaxPad == 12

\* the extra children of moov tried: unknown types, repeated types, and
\* types spelled like a property readBox sets on every box
ExtraChildren ==
    {<<>>, <<"free">>, <<"udta", "udta">>, <<"udta", "free", "udta">>,
     <<"name">>, <<"size">>, <<"type", "type">>}

RECURSIVE ExtraBoxes(_, _)
ExtraBoxes(names, pad) ==
    IF names = <<>> THEN <<>>
    ELSE Box(Head(names), Zeros(pad)) \o ExtraBoxes(Tail(names), pad)

\* the second trak: absent, an audio-less stub with a header, one without
\* tkhd, one with two
SecondTraks == {"none", "stub", "headerless", "twoHeaders"}

SecondTrak(kind) ==
    CASE kind = "none" -> <<>>
      [] kind = "stub" -> Box("trak", TkhdBox(2, <<>>))
      [] kind = "headerless" -> Box("trak", Box("free", <<>>))
      [] kind = "twoHeaders" -> Box("trak", TkhdBox(2, <<>>) \o TkhdBox(3, <<>>))

\* ftyp sizes: one compatible brand (20), or a size that is not 16 + 4n
FtypSizes == {20, 18}

TkhdTails == {<<>>, LongTkhdTail}

\* ftyp, mdat, moov[mvhd, extra children, video trak, second trak]
Mp4File(ftypSize, names, pad, tail, second) ==
    LET ftyp == FtypBox(ftypSize)
        mdat == Box("mdat", SampleData)
        chunkOffset == Len(ftyp) + BOX_HEADER_SIZE
    IN ftyp \o mdat
         \o Box("moov", MvhdBox \o ExtraBoxes(names, pad)
                          \o Box("trak", TkhdBox(1, tail) \o MdiaBox(chunkOffset, SampleSizes))
                          \o SecondTrak(second))

Mp4Files ==
    {Mp4File(ftypSize, names, pad, tail, second) :
        ftypSize \in FtypSizes, names \in ExtraChildren, pad \in {0, MaxPad},
        tail \in TkhdTails, second \in SecondTraks}

\* the declared sizes and start positions tried for a box of unknown type
MaxUnknownSize == 21
MaxStart == 2

\* a stream holding one box of a type readBox has no case for, after
\* `start` bytes, with `pad` payload bytes actually present
UnknownBoxInputs ==
    {[type |-> "unknown", start |-> start,
      buf |-> Zeros(start) \o BoxOfSize(size, name, Zeros(pad))] :
        start \in 0..MaxStart, size \in {0, 7, 8, 9, 20, MaxUnknownSize},
        name \in {"free", "udta", "null"}, pad \in {0, MaxPad}}

----------------------------------------------------------------------------
(* Specification of parsing: MP4Reader.read() on a file, or one readBox     *)
(* call on a stream positioned at a box of unknown type.                    *)

InitParse ==
    /\ \/ bytes \in Mp4Files /\ boxIn = NoBox
       \/ bytes = <<>> /\ boxIn \in UnknownBoxInputs
    /\ stsc = <<>>
    /\ stco = <<>>
    /\ stsz = NoStsz
    /\ declCount = 0
    /\ stts = <<>>
    /\ mdhdDuration = 0
    /\ call = NoCall
    /\ ret = NoRet
    /\ console = 0
    /\ player = NoPlayer

\* new MP4Reader(new Bytestream(buffer)).read()
CallRead ==
    /\ boxIn = NoBox
    /\ call' = [op |-> "read"]
    /\ \E out \in {read(bytes)} :
          /\ ret' = [k |-> "read", out |-> out]
          /\ console' = out.errors
    /\ UNCHANGED <<stsc, stco, stsz, declCount, stts, mdhdDuration, bytes, boxIn, player>>

\* reader.readBox(stream) with stream.position = boxIn.start
CallReadBoxAt ==
    /\ boxIn # NoBox
    /\ call' = [op |-> "readBox"]
    /\ \E out \in {readBoxAt(boxIn.buf, At(Stream(0, Len(boxIn.buf)), boxIn.start))} :
          /\ ret' = [k |-> "readBox", out |-> out]
          /\ console' = out.errors
    /\ UNCHANGED <<stsc, stco, stsz, declCount, stts, mdhdDuration, bytes, boxIn, player>>

NextParse == CallRead \/ CallReadBoxAt

SpecParse == InitParse /\ [][NextParse]_vars

----------------------------------------------------------------------------
(* Properties of parsing *)

\* the readBox calls of the history made for the children of one parent,
\* in the order they were made
ChildrenOf(log, parentOffset) == SelectSeq(log, LAMBDA e : e.parent = parentOffset)

Parents(log) == {log[i].parent : i \in 1..Len(log)}

\* the types readBox has a case for
KnownTypes == Named \cup Containers

\* C11: when read() is left by an exception, the reader holds nothing parsed
\* before it: file has no boxes and tracks has no tracks.
C11_NoPartialResult ==
    (ret.k = "read" /\ ret.out.thrown # "none")
        => (ret.out.file.props = NoProps /\ ret.out.tracks = NoTracks)

\* C12: readBox on a box of a type it has no case for does not throw and
\* leaves the cursor at box.offset + box.size; inside a file, the sibling
\* read after such a box begins there.
C12_UnknownBoxSkipped ==
    /\ ret.k = "readBox" =>
          /\ ret.out.thrown = "none"
          /\ ret.out.s.pos = ret.out.box.offset + ret.out.box.size
    /\ ret.k = "read" =>
          \A p \in Parents(ret.out.log) :
             LET kids == ChildrenOf(ret.out.log, p)
             IN \A i \in 1..Len(kids) :
                   kids[i].type \notin KnownTypes =>
                      /\ kids[i].after = kids[i].offset + kids[i].size
                      /\ i < Len(kids) => kids[i + 1].offset = kids[i].offset + kids[i].size

\* a box of unknown type and declared size 20 that does not start the
\* buffer was read and the cursor is 20 bytes past its start, and a file
\* with unknown boxes between siblings was read
C12_Witness ==
    \/ /\ ret.k = "readBox"
       /\ ret.out.box.type \notin KnownTypes
       /\ ret.out.box.offset > 0
       /\ ret.out.box.size = 20
       /\ ret.out.s.pos = ret.out.box.offset + 20
    \/ /\ ret.k = "read"
       /\ \E i \in 1..Len(ret.out.log) :
             ret.out.log[i].type = CC("free") /\ ret.out.log[i].size = 20

\* parent[t] holds exactly the children of type t, in stream order: the
\* child itself when there is one, the array of them otherwise
SlotHolds(slot, kids) ==
    IF Len(kids) = 1
    THEN slot.tag = "box" /\ slot.box.offset = kids[1].offset
    ELSE /\ slot.tag = "arr"
         /\ Len(slot.items) = Len(kids)
         /\ \A i \in 1..Len(kids) :
               slot.items[i].tag = "box" /\ slot.items[i].box.offset = kids[i].offset

\* the children of `parent` are filed under their types
ChildrenFiled(parent, log) ==
    LET kids == ChildrenOf(log, parent.offset)
    IN \A i \in 1..Len(kids) :
          /\ kids[i].type \in DOMAIN parent.props
          /\ SlotHolds(parent.props[kids[i].type],
                       SelectSeq(kids, LAMBDA e : e.type = kids[i].type))

\* C14: after read() returned, the file and its moov box hold, for every
\* type code among their children, the single child or the sequence of all
\* children of that type in stream order.
C14_ChildrenByType ==
    (ret.k = "read" /\ ret.out.returned) =>
        /\ ChildrenFiled(ret.out.file, ret.out.log)
        /\ (CC("moov") \in DOMAIN ret.out.file.props /\ ret.out.file.props[CC("moov")].tag = "box")
              => ChildrenFiled(ret.out.file.props[CC("moov")].box, ret.out.log)

\* C15: under every parent, each child read begins where the previous
\* child's declared range ended, and a container leaves the cursor at its
\* offset + size.
C15_ChildrenContiguous ==
    ret.k = "read" =>
        /\ \A p \in Parents(ret.out.log) :
              LET kids == ChildrenOf(ret.out.log, p)
              IN \A i \in 1..(Len(kids) - 1) :
                    kids[i + 1].offset = kids[i].offset + kids[i].size
        /\ \A i \in 1..Len(ret.out.log) :
              ret.out.log[i].type \in Containers =>
                 ret.out.log[i].after = ret.out.log[i].offset + ret.out.log[i].size

----------------------------------------------------------------------------
(* MP4Player: readAll, play and the picture timer.                          *)

\* the value of an expression: a slot (see OneBox, Arr, Own), undefined,
\* or the TypeError raised while evaluating it
UndefinedSlot == [tag |-> "undefined"]
TypeErrorSlot == [tag |-> "TypeError"]

\* slot.name for a four-character name: a child box, an array of them, a
\* field, or undefined; reading a property of undefined throws
GetProp(slot, name) ==
    IF slot.tag \in {"undefined", "TypeError"} THEN TypeErrorSlot
    ELSE IF slot.tag = "box" /\ CC(name) \in DOMAIN slot.box.props THEN slot.box.props[CC(name)]
    ELSE UndefinedSlot

\* slot.a.b.c for names <<a, b, c>>
RECURSIVE GetPath(_, _)
GetPath(slot, names) ==
    IF names = <<>> THEN slot ELSE GetPath(GetProp(slot, Head(names)), Tail(names))

\* reader.tracks[1].trak
VideoTrak(reader) == IF 1 \in DOMAIN reader.tracks THEN OneBox(reader.tracks[1]) ELSE UndefinedSlot

\* what the decoder is handed
Decoded(kind, data) == [kind |-> kind, data |-> data]

\* array[0], undefined (<<>> here) for an empty array
First(array) == IF Len(array) > 0 THEN array[1] ELSE <<>>

\* if (pic < 3000) in the timer function
PicLimit == 3000

\* the clicks on the canvas, the calls of readAll from outside the player
\* and the pictures per timer chain followed
MaxClicks == 2
MaxReadAlls == 1
MaxPic == 3

\* new MP4Player(stream): no reader; `loads` holds the callback of every
\* stream.readAll call that has not delivered ("play": play bound to the
\* player, "none", or "other": a function of the caller), `timers` holds
\* the pic of every pending picture timer, `decoded` is what avc.decode
\* was called with, in order
NewPlayer ==
    [k |-> "player", hasReader |-> FALSE, reader |-> NoRet, loads |-> <<>>, clicks |-> 0,
     readAlls |-> 0, timers |-> <<>>, decoded |-> <<>>]

\* MP4Player.readAll(callback): the load is started, nothing else
readAll(p, callback) == [p EXCEPT !.loads = Append(@, callback)]

\* play() with this.reader set: the player afterwards.  A TypeError on the
\* way to avcC, or on avc.sps, leaves the player as it was.
playWithReader(p) ==
    LET avc == GetPath(VideoTrak(p.reader), <<"mdia", "minf", "stbl", "stsd", "avc1", "avcC">>)
    IN IF avc.tag # "box" THEN p
       ELSE [p EXCEPT !.decoded = @ \o <<Decoded("sps", First(avc.box.fields.sps)),
                                          Decoded("pps", First(avc.box.fields.pps))>>,
                      !.timers = Append(@, 0)]

\* MP4Player.play()
play(p) ==
    IF ~p.hasReader THEN readAll(p, "play") ELSE playWithReader(p)

\* the pending loads without the i-th
WithoutLoad(p, i) == SubSeq(p.loads, 1, i - 1) \o SubSeq(p.loads, i + 1, Len(p.loads))

\* The function readAll hands to stream.readAll, for the i-th pending
\* load.  Its first statement evaluates new Bytestream(buffer); the module
\* binds the name ByteStream and nothing declares Bytestream, so a
\* ReferenceError ends the function before this.reader is assigned:
\* read() is not called, the size is not taken, the callback is not called.
readAllCallback(p, i) == [p EXCEPT !.loads = WithoutLoad(p, i)]

\* video.getSampleNALUnits(pic) on the track registered under key 1.
\* sampleToChunk reads stsc.table.length and chunkToOffset stco.table[chunk]:
\* a TypeError when the box is missing, is an array of boxes, or holds the
\* null table of a read past the end.
videoSampleNALUnits(p, buf, pic) ==
    LET stbl == GetPath(VideoTrak(p.reader), <<"mdia", "minf", "stbl">>)
        stscBox == GetProp(stbl, "stsc")
        stcoBox == GetProp(stbl, "stco")
        stszBox == GetProp(stbl, "stsz")
        NoTable(slot) == slot.tag # "box" \/ ~slot.box.fields.hasTable
    IN IF NoTable(stscBox) \/ NoTable(stcoBox) \/ stszBox.tag # "box"
       THEN NalResult("TypeError", <<>>, Undefined, Undefined)
       ELSE getSampleNALUnits(buf, stscBox.box.fields.table, stcoBox.box.fields.table,
                              stszBox.box.fields, pic)

\* the timer function foo of play() for the i-th pending timer
foo(p, buf, i) ==
    LET pic == p.timers[i]
        others == SubSeq(p.timers, 1, i - 1) \o SubSeq(p.timers, i + 1, Len(p.timers))
        Run(nals) ==
            IF nals.k = "TypeError" THEN [p EXCEPT !.timers = others]
            ELSE [p EXCEPT !.decoded = @ \o [n \in 1..Len(nals.units) |-> Decoded("nal", nals.units[n])],
                           !.timers = IF pic + 1 < PicLimit THEN Append(others, pic + 1) ELSE others]
    IN Then(videoSampleNALUnits(p, buf, pic), Run)

----------------------------------------------------------------------------
(* Specification of the player: clicks on the canvas, calls of readAll, the *)
(* end of a load, picture timers.                                           *)

InitPlay ==
    /\ bytes \in Mp4Files
    /\ player = NewPlayer
    /\ stsc = <<>>
    /\ stco = <<>>
    /\ stsz = NoStsz
    /\ declCount = 0
    /\ stts = <<>>
    /\ mdhdDuration = 0
    /\ boxIn = NoBox
    /\ call = NoCall
    /\ ret = NoRet
    /\ console = 0

PlayUnchanged == UNCHANGED <<stsc, stco, stsz, declCount, stts, mdhdDuration, bytes, boxIn, ret, console>>

\* canvas.onclick: Broadway.play() calls player.play()
Click ==
    /\ player.clicks < MaxClicks
    /\ player' = [play(player) EXCEPT !.clicks = @ + 1]
    /\ call' = [op |-> "play"]
    /\ PlayUnchanged

\* player.readAll(callback) called by the page itself, with a function of
\* its own or with none
ReadAll ==
    /\ player.readAlls < MaxReadAlls
    /\ \E callback \in {"none", "other"} :
          player' = [readAll(player, callback) EXCEPT !.readAlls = @ + 1]
    /\ call' = [op |-> "readAll"]
    /\ PlayUnchanged

\* stream.readAll delivers the buffer of one pending load
LoadDone ==
    /\ \E i \in 1..Len(player.loads) : player' = readAllCallback(player, i)
    /\ call' = [op |-> "readAllCallback"]
    /\ PlayUnchanged

\* a picture timer set by play() or by foo fires
TimerFires ==
    /\ \E i \in 1..Len(player.timers) :
          /\ player.timers[i] < MaxPic
          /\ player' = foo(player, bytes, i)
    /\ call' = [op |-> "foo"]
    /\ PlayUnchanged

NextPlay == Click \/ ReadAll \/ LoadDone \/ TimerFires

SpecPlay == InitPlay /\ [][NextPlay]_vars

\* C13: every picture unit handed to the decoder comes after an sps and
\* then a pps were handed to it, and only after read() returned on the
\* loaded buffer.
C13_ParameterSetsBeforePictures ==
    \A i \in 1..Len(player.decoded) :
       player.decoded[i].kind = "nal" =>
          /\ \E j \in 1..(i - 1) : \E n \in (j + 1)..(i - 1) :
                /\ player.decoded[j] = Decoded("sps", SpsBytes)
                /\ player.decoded[n] = Decoded("pps", PpsBytes)
          /\ player.hasReader
          /\ player.reader.returned

====
